---- MODULE Spec2Model ----
(***************************************************************************)
(* State-machine model of src/server.py: the image_generate tool of the   *)
(* ComfyUI MCP server.  handle_call_tool runs on the event loop and hands  *)
(* comfyui_generate_image to a worker thread; worker threads of different  *)
(* calls interleave statement by statement and share the module-level      *)
(* dictionary comfyui_workflow, the engine and the output directory.       *)
(*                                                                         *)
(* Text that the code inspects character by character (titles, filenames,  *)
(* the rendered reference) is a sequence of tokens, one token per          *)
(* character, with the fixed pieces (".png", the base URL, the workflow    *)
(* name, a formatted timestamp) as single tokens.                          *)
(***************************************************************************)
EXTENDS Integers, Sequences, FiniteSets, TLC

(* ------------------------------------------------------------------ *)
(* Bounds of the model                                                 *)
(* ------------------------------------------------------------------ *)

\* Number of image_generate calls the client sends (any two may overlap).
NumCalls == 2
\* The wall clock advances in ticks up to MaxTime.
MaxTime == 2
\* The counters of status and artifact requests saturate at ReqCap.
ReqCap == 1

\* The sanitizer is applied to every title of at most MaxTitleLen characters.
MaxTitleLen == 3

Calls == 1..NumCalls

(* ------------------------------------------------------------------ *)
(* Module-level constants of server.py                                 *)
(* ------------------------------------------------------------------ *)

\* Clock ticks per second of strftime("%Y-%m-%d_%H:%M:%S"): the formatted
\* timestamp has one-second resolution, the clock is finer.
TicksPerSecond == 2

image_app_base_url == "http://127.0.0.1:8081/view"
comfyui_workflow_name == "flux-krea"

\* special_char_pattern = r'[^a-zA-Z0-9_]': the characters it does NOT match.
WordChars ==
    { "a","b","c","d","e","f","g","h","i","j","k","l","m",
      "n","o","p","q","r","s","t","u","v","w","x","y","z",
      "A","B","C","D","E","F","G","H","I","J","K","L","M",
      "N","O","P","Q","R","S","T","U","V","W","X","Y","Z",
      "0","1","2","3","4","5","6","7","8","9","_" }

special_char_pattern(c) == c \notin WordChars

aspect_ratio_aliases ==
    [ a \in { "1:1", "square", "16:9", "widest", "9:16", "tallest",
              "4:3", "wide", "3:4", "tall" } |->
        CASE a \in {"1:1", "square"}   -> "1:1"
          [] a \in {"16:9", "widest"}  -> "16:9"
          [] a \in {"9:16", "tallest"} -> "9:16"
          [] a \in {"4:3", "wide"}     -> "4:3"
          [] a \in {"3:4", "tall"}     -> "3:4" ]

default_aspect_ratios ==
    [ r \in {"16:9", "4:3", "1:1", "3:4", "9:16"} |->
        CASE r = "16:9" -> <<1280, 720>>
          [] r = "4:3"  -> <<1152, 864>>
          [] r = "1:1"  -> <<1024, 1024>>
          [] r = "3:4"  -> <<864, 1152>>
          [] r = "9:16" -> <<720, 1280>> ]

(* ------------------------------------------------------------------ *)
(* The two descriptor files workflows/<name>.json and <name>.yaml      *)
(* ------------------------------------------------------------------ *)

\* Graphs workflows/<name>.json may hold, as json.load returns them:
\* node id -> node, reduced to the node's "inputs" mapping (field -> value).
\* Seeds are pairs <<high, low>> of base-100000 limbs, text is a prompt
\* string.  The first graph seeds a sampler node ("seed"), the second a
\* noise node ("noise_seed") and a sampler node ("seed"), and sizes a node
\* that has a width only.  The third graph is the first with another text
\* encoder, node "7", whose prompt inputs are named clip_l and t5xxl.
WorkflowFiles ==
    << [ n \in {"3", "5", "6", "9"} |->
           CASE n = "3"  -> [seed |-> <<0, 0>>, steps |-> 20]
             [] n = "5"  -> [width |-> 512, height |-> 512, batch_size |-> 1]
             [] n = "6"  -> [text |-> "template prompt"]
             [] n = "9"  -> [filename_prefix |-> "ComfyUI"] ],
       [ n \in {"25", "27", "31", "6", "9"} |->
           CASE n = "25" -> [noise_seed |-> <<0, 0>>]
             [] n = "31" -> [seed |-> <<0, 0>>, denoise |-> 1]
             [] n = "27" -> [width |-> 512, max_shift |-> 1]
             [] n = "6"  -> [text |-> "template prompt"]
             [] n = "9"  -> [filename_prefix |-> "ComfyUI"] ],
       [ n \in {"3", "5", "7", "9"} |->
           CASE n = "3"  -> [seed |-> <<0, 0>>, steps |-> 20]
             [] n = "5"  -> [width |-> 512, height |-> 512, batch_size |-> 1]
             [] n = "7"  -> [clip_l |-> "template prompt",
                             t5xxl |-> "template prompt"]
             [] n = "9"  -> [filename_prefix |-> "ComfyUI"] ] >>

EmptyTable == [ r \in {} |-> <<0, 0>> ]

\* The binding configs workflows/<name>.yaml may hold (yaml.safe_load), each
\* with the graph it is paired with:
\*  1  no aspect_ratios table (the defaults are substituted);
\*  2  a table of its own that leaves out 3:4 and 9:16;
\*  3  a prompt_nodes list naming a node the graph does not have;
\*  4  a prompt_nodes list naming a node that has no input called text.
ConfigFiles ==
    << [ graph            |-> 1,
         aspect_ratios    |-> EmptyTable,
         image_size_nodes |-> <<"5">>,
         seed_nodes       |-> <<"3">>,
         prompt_nodes     |-> <<"6">>,
         save_image_node  |-> "9" ],
       [ graph            |-> 2,
         aspect_ratios    |-> [ r \in {"1:1", "16:9", "4:3"} |->
                                  CASE r = "1:1"  -> <<768, 768>>
                                    [] r = "16:9" -> <<1344, 768>>
                                    [] r = "4:3"  -> <<1024, 768>> ],
         image_size_nodes |-> <<"27">>,
         seed_nodes       |-> <<"25", "31">>,
         prompt_nodes     |-> <<"6">>,
         save_image_node  |-> "9" ],
       [ graph            |-> 1,
         aspect_ratios    |-> EmptyTable,
         image_size_nodes |-> <<"5">>,
         seed_nodes       |-> <<"3">>,
         prompt_nodes     |-> <<"6", "99">>,
         save_image_node  |-> "9" ],
       [ graph            |-> 3,
         aspect_ratios    |-> EmptyTable,
         image_size_nodes |-> <<"5">>,
         seed_nodes       |-> <<"3">>,
         prompt_nodes     |-> <<"7">>,
         save_image_node  |-> "9" ] >>

\* Lines 108-110: a missing or empty aspect_ratios table is replaced by the
\* built-in one; nothing else of the config is checked or changed.
LoadConfig(config_data) ==
    IF DOMAIN config_data.aspect_ratios = {}
    THEN [config_data EXCEPT !.aspect_ratios = default_aspect_ratios]
    ELSE config_data

(* ------------------------------------------------------------------ *)
(* Pure helpers of comfyui_generate_image                              *)
(* ------------------------------------------------------------------ *)

\* Lines 125-129: an alias that is no key of aspect_ratio_aliases (None
\* included) silently becomes 'square'; then the alias is canonicalised.
ResolveAliasSquare(aspect_ratio) ==
    aspect_ratio_aliases[
        IF aspect_ratio \notin DOMAIN aspect_ratio_aliases
        THEN "square" ELSE aspect_ratio ]

\* A faulty resolver: the fallback picks the widest ratio.
ResolveAliasWidest(aspect_ratio) ==
    aspect_ratio_aliases[
        IF aspect_ratio \notin DOMAIN aspect_ratio_aliases
        THEN "widest" ELSE aspect_ratio ]

ResolveAlias(aspect_ratio) == ResolveAliasSquare(aspect_ratio)

\* Line 131: the table lookup raises KeyError when the key is absent.
SizeRaises(config, aspect_ratio) ==
    ResolveAlias(aspect_ratio) \notin DOMAIN config.aspect_ratios

SizeOf(config, aspect_ratio) ==
    config.aspect_ratios[ResolveAlias(aspect_ratio)]

\* A faulty sanitizer: the special characters are dropped.
SanitizeTitleDropping(title) ==
    SelectSeq(title, LAMBDA c : ~special_char_pattern(c))

\* Line 203: re.sub(special_char_pattern, '-', title).
SanitizeTitle(title) ==
    [ k \in 1..Len(title) |->
        IF special_char_pattern(title[k]) THEN "-" ELSE title[k] ]

\* float(uuid.uuid4().int) for some uuid4 values, written in base-100000
\* limbs, most significant first (int % 1e10 first converts the int to a
\* float).
UuidFloats ==
    { <<241, 97857, 16101, 16373, 89387, 5641, 23460, 23936>>,
      <<3402, 82366, 92093, 76323, 22687, 36223, 74210, 60960>> }

\* A faulty reduction: modulo 10^15, the three low limbs.
make_random_seed_wide(u) == << u[Len(u) - 2], u[Len(u) - 1], u[Len(u)] >>

\* Lines 118-119: int(u % 1e10): the two low base-100000 limbs.
make_random_seed(u) == << u[Len(u) - 1], u[Len(u)] >>

\* Line 204: strftime with one-second resolution.
Strftime(t) == "ts" \o ToString(t \div TicksPerSecond)

\* Line 205: f"{formatted_datetime}_{image_title}_{comfyui_workflow_name}.png"
ImageFilename(t, title) ==
    <<Strftime(t), "_">> \o SanitizeTitle(title)
        \o <<"_", comfyui_workflow_name, ".png">>

\* A faulty renderer: the reference shows the sanitized title.
MarkdownSanitized(title, image_filename) ==
    <<"![">> \o SanitizeTitle(title) \o <<"](", image_app_base_url, "/">>
        \o image_filename \o <<")">>

\* Line 210: f"![{title}]({image_app_base_url}/{image_filename})"
Markdown(title, image_filename) ==
    <<"![">> \o title \o <<"](", image_app_base_url, "/">>
        \o image_filename \o <<")">>

\* Line 261: image_filename.replace('.png', '.txt')
PromptFilename(image_filename) ==
    [ k \in 1..Len(image_filename) |->
        IF image_filename[k] = ".png" THEN ".txt" ELSE image_filename[k] ]

(* ------------------------------------------------------------------ *)
(* Inputs of the model                                                 *)
(* ------------------------------------------------------------------ *)

\* The prompt and title of a request; the two titles differ only in a
\* special character.
Requests ==
    { [ prompt |-> "a red fox",  title |-> <<"a", " ", "b">> ],
      [ prompt |-> "a blue cat", title |-> <<"a", "&", "b">> ] }

AspectInputs == { "tall", "bogus" }

\* The history entries GET /history/<id> may hold for a finished job.  An
\* image descriptor {filename, subfolder, type} is reduced to its filename.
Histories ==
    << [ outputs |-> [ n \in {"9", "10"} |->
            IF n = "9" THEN [ images |-> <<"out_1.png", "out_2.png">> ]
                       ELSE [ images |-> <<"preview.png">> ] ] ],
       [ outputs |-> [ n \in {"9", "10"} |->
            IF n = "9" THEN [ images |-> <<>> ]
                       ELSE [ images |-> <<"preview.png">> ] ] ],
       [ outputs |-> [ n \in {"9"} |-> [ text |-> <<"done">> ] ] ],
       [ outputs |-> [ n \in {"10"} |-> [ images |-> <<"preview.png">> ] ] ],
       [ status |-> "error" ] >>

(* ------------------------------------------------------------------ *)
(* State                                                               *)
(* ------------------------------------------------------------------ *)

VARIABLES
    config,      \* comfyui_workflow[config_key], fixed at load
    template,    \* the graph as json.load returned it at startup
    workflow,    \* comfyui_workflow[workflow_key], shared by all calls
    pc,          \* per call: where its handler or worker thread stands
    args,        \* per call: prompt, title, aspect_ratio
    loc,         \* per call: the live locals of comfyui_generate_image
    reqs,        \* per call: requests issued to the engine, by endpoint
    engine,      \* per job id: the engine's status of the job
    output_dir,  \* the files written under OUTPUT_DIR: name -> content
    now,         \* the wall clock
    result       \* per call: what handle_call_tool gave back

vars == << config, template, workflow, pc, args, loc, reqs, engine,
           output_dir, now, result >>

\* An argument or local that holds nothing (the empty string is an alias a
\* caller may send).
Unset == "<unset>"

NoArgs == [ prompt |-> Unset, title |-> <<>>, aspect_ratio |-> Unset ]

\* A local holds its value only while a later statement may read it.
NoLocals ==
    [ width |-> 0, height |-> 0, k |-> 0, f |-> 0, seeds |-> <<>>,
      body |-> <<>>, prompt_id |-> 0, history |-> 0, output_images |-> <<>>,
      image_filename |-> <<>>, markdown |-> <<>>, exc |-> "" ]

NoResult == [ kind |-> "none", text |-> <<>> ]

Init ==
    /\ \E c \in 1..Len(ConfigFiles) :
          /\ config = LoadConfig(ConfigFiles[c])
          /\ template = WorkflowFiles[ConfigFiles[c].graph]
          /\ workflow = WorkflowFiles[ConfigFiles[c].graph]
    /\ pc = [ i \in Calls |-> "idle" ]
    /\ args = [ i \in Calls |-> NoArgs ]
    /\ loc = [ i \in Calls |-> NoLocals ]
    /\ reqs = [ i \in Calls |-> [ prompt |-> 0, history |-> 0, view |-> 0 ] ]
    /\ engine = [ j \in Calls |-> "none" ]
    /\ output_dir = << >>
    /\ now = 0
    /\ result = [ i \in Calls |-> NoResult ]

(* ------------------------------------------------------------------ *)
(* Parameter injection: lines 136-149                                  *)
(* ------------------------------------------------------------------ *)

\* A faulty injector: the prompt loop is left out.
StagesWithoutPrompt == << "size", "seed" >>

Stages == << "size", "seed", "prompt" >>

\* The role list a loop runs over.
RoleNodes(stage) ==
    CASE stage = "size"   -> config.image_size_nodes
      [] stage = "seed"   -> config.seed_nodes
      [] stage = "prompt" -> config.prompt_nodes

\* The input fields a loop body looks at, in the order of its statements.
RoleFields(stage) ==
    CASE stage = "size"   -> << "width", "height" >>
      [] stage = "seed"   -> << "seed", "noise_seed" >>
      [] stage = "prompt" -> << "text" >>

\* The first statement of loop number s (or of a later loop when the role
\* list is empty); after the last loop comes queue_prompt.
RECURSIVE LoopEntry(_)
LoopEntry(s) ==
    IF s > Len(Stages) THEN [ pc |-> "queue", k |-> 0, f |-> 0 ]
    ELSE IF Len(RoleNodes(Stages[s])) = 0 THEN LoopEntry(s + 1)
    ELSE [ pc |-> Stages[s], k |-> 1, f |-> 1 ]

StageIndex(stage) == CHOOSE s \in 1..Len(Stages) : Stages[s] = stage

\* The statement after field f of node k of a loop.
AfterField(stage, k, f) ==
    IF f < Len(RoleFields(stage)) THEN [ pc |-> stage, k |-> k, f |-> f + 1 ]
    ELSE IF k < Len(RoleNodes(stage)) THEN [ pc |-> stage, k |-> k + 1, f |-> 1 ]
    ELSE LoopEntry(StageIndex(stage) + 1)

\* Whether the statement writes: the size and seed loops test for the field
\* (lines 137, 139, 143, 145), the prompt loop does not (line 149).
Writes(stage, node, field) ==
    stage = "prompt" \/ field \in DOMAIN workflow[node]

\* The graph with one input field of one node assigned.
SetInput(graph, node, field, value) ==
    [ graph EXCEPT ![node] =
        IF field \in DOMAIN @ THEN [ @ EXCEPT ![field] = value ]
        ELSE (field :> value) @@ @ ]

\* A worker thread ends by raising exc.
Raise(i, exc) ==
    /\ loc' = [ loc EXCEPT ![i] = [ NoLocals EXCEPT !.exc = exc ] ]
    /\ pc' = [ pc EXCEPT ![i] = "returned" ]

Goto(i, pos) ==
    /\ pc' = [ pc EXCEPT ![i] = pos.pc ]
    /\ loc' = [ loc EXCEPT ![i].k = pos.k, ![i].f = pos.f ]

Count(n) == IF n < ReqCap THEN n + 1 ELSE ReqCap

(* ------------------------------------------------------------------ *)
(* handle_call_tool, up to the await: lines 246-257                    *)
(* ------------------------------------------------------------------ *)

\* A tools/call request for image_generate arrives; the handler reads the
\* arguments and hands comfyui_generate_image to a worker thread.
CallTool(i) ==
    /\ pc[i] = "idle"
    /\ \E r \in Requests, a \in AspectInputs :
          args' = [ args EXCEPT ![i] =
                      [ prompt |-> r.prompt, title |-> r.title,
                        aspect_ratio |-> a ] ]
    /\ pc' = [ pc EXCEPT ![i] = "resolve" ]
    /\ UNCHANGED << config, template, workflow, loc, reqs, engine,
                    output_dir, now, result >>

\* Lines 272-276: a call of any other tool name.
CallUnknownTool(i) ==
    /\ pc[i] = "idle"
    /\ pc' = [ pc EXCEPT ![i] = "done" ]
    /\ result' = [ result EXCEPT ![i] =
                     [ kind |-> "text", text |-> <<"Unknown tool: ", "other">> ] ]
    /\ UNCHANGED << config, template, workflow, args, loc, reqs, engine,
                    output_dir, now >>

(* ------------------------------------------------------------------ *)
(* comfyui_generate_image on its worker thread: lines 121-212          *)
(* ------------------------------------------------------------------ *)

\* Lines 122-134.
Resolve(i) ==
    /\ pc[i] = "resolve"
    /\ IF SizeRaises(config, args[i].aspect_ratio)
       THEN Raise(i, "KeyError")
       ELSE LET wh  == SizeOf(config, args[i].aspect_ratio)
                pos == LoopEntry(1)
            IN /\ pc' = [ pc EXCEPT ![i] = pos.pc ]
               /\ loc' = [ loc EXCEPT ![i].width = wh[1], ![i].height = wh[2],
                                      ![i].k = pos.k, ![i].f = pos.f ]
    /\ UNCHANGED << config, template, workflow, args, reqs, engine,
                    output_dir, now, result >>

\* The value a loop statement assigns, given the seed drawn for it.
BoundValue(i, stage, field, seed) ==
    CASE stage = "size"   -> IF field = "width" THEN loc[i].width
                                                ELSE loc[i].height
      [] stage = "seed"   -> seed
      [] stage = "prompt" -> args[i].prompt

\* One statement of the loops of lines 136-149: field f of the k-th node of
\* the role list.  A node the graph lacks raises KeyError.  Line 134 binds
\* prompt_structure to the shared dictionary itself, so every assignment
\* lands in the graph all calls share.
InjectStep(i) ==
    /\ pc[i] \in { "size", "seed", "prompt" }
    /\ LET stage == pc[i]
           node  == RoleNodes(stage)[loc[i].k]
           field == RoleFields(stage)[loc[i].f]
           pos   == AfterField(stage, loc[i].k, loc[i].f)
       IN IF node \notin DOMAIN workflow
          THEN Raise(i, "KeyError") /\ UNCHANGED workflow
          ELSE IF ~Writes(stage, node, field)
          THEN Goto(i, pos) /\ UNCHANGED workflow
          ELSE \E u \in IF stage = "seed" THEN UuidFloats
                        ELSE { << 0, 0 >> } :
                 LET value == BoundValue(i, stage, field, make_random_seed(u))
                 IN /\ workflow' = SetInput(workflow, node, field, value)
                    /\ pc' = [ pc EXCEPT ![i] = pos.pc ]
                    /\ loc' = [ loc EXCEPT
                          ![i].k = pos.k, ![i].f = pos.f,
                          ![i].seeds = IF stage = "seed"
                                       THEN Append(@, << node, field, value >>)
                                       ELSE @ ]
    /\ UNCHANGED << config, template, args, reqs, engine, output_dir, now,
                    result >>

\* GET /history/<id> as the engine answers it: the id is a key of the answer
\* only while the engine's history holds the job, and is_processing is set
\* while the job runs.
GetHistory(j) ==
    [ found         |-> engine[j] \in { "running", "complete" },
      is_processing |-> engine[j] = "running" ]

\* GET /view for one image descriptor of a job: the artifact's bytes.
GetImage(j, filename) == ToString(j) \o "/" \o filename

\* Lines 153-154: queue_prompt serialises the graph as it is at this moment.
Serialize(i) ==
    /\ pc[i] = "queue"
    /\ loc' = [ loc EXCEPT ![i].body = << workflow >> ]
    /\ pc' = [ pc EXCEPT ![i] = "post" ]
    /\ UNCHANGED << config, template, workflow, args, reqs, engine,
                    output_dir, now, result >>

\* Lines 156-157 and 171 when the POST fails (URLError: unreachable or a
\* non-success status) or its answer has no prompt_id (KeyError): the error
\* leaves comfyui_generate_image.
SubmitRaises(i, exc) == Raise(i, exc)

\* A faulty client: a failed submission is tried again.
SubmitRetries(i, exc) ==
    /\ pc' = [ pc EXCEPT ![i] = "post" ]
    /\ UNCHANGED loc

SubmitFailed(i, exc) == SubmitRaises(i, exc)

\* Lines 155-157 and 170-171: POST /prompt and read prompt_id.  The graph,
\* the alias, the sizes and the seeds are not read again.
Post(i) ==
    /\ pc[i] = "post"
    /\ reqs' = [ reqs EXCEPT ![i].prompt = @ + 1 ]
    /\ args' = [ args EXCEPT ![i].aspect_ratio = Unset ]
    /\ \E outcome \in { "ok", "URLError", "KeyError" } :
          IF outcome = "ok"
          THEN /\ engine' = [ engine EXCEPT ![i] = "queued" ]
               /\ loc' = [ loc EXCEPT ![i] = [ NoLocals EXCEPT !.prompt_id = i ] ]
               /\ pc' = [ pc EXCEPT ![i] = "poll" ]
          ELSE /\ SubmitFailed(i, outcome)
               /\ UNCHANGED engine
    /\ UNCHANGED << config, template, workflow, output_dir, now, result >>

\* A faulty poller: an answer without the job id ends the loop.
PollUnknownIsTerminal(i) ==
    /\ pc[i] = "poll"
    /\ reqs' = [ reqs EXCEPT ![i].history = Count(@) ]
    /\ \E answered \in BOOLEAN :
          IF ~answered THEN Raise(i, "URLError")
          ELSE LET h == GetHistory(loc[i].prompt_id)
               IN /\ pc' = [ pc EXCEPT ![i] =
                       IF ~h.is_processing THEN "history" ELSE "sleep" ]
                  /\ UNCHANGED loc
    /\ UNCHANGED << config, template, workflow, args, engine, output_dir,
                    now, result >>

\* Lines 174-178 and 180-183: one status query of the polling loop.
Poll(i) ==
    /\ pc[i] = "poll"
    /\ reqs' = [ reqs EXCEPT ![i].history = Count(@) ]
    /\ \E answered \in BOOLEAN :
          IF ~answered THEN Raise(i, "URLError")
          ELSE LET h == GetHistory(loc[i].prompt_id)
               IN /\ pc' = [ pc EXCEPT ![i] =
                       IF h.found /\ ~h.is_processing THEN "history"
                                                      ELSE "sleep" ]
                  /\ UNCHANGED loc
    /\ UNCHANGED << config, template, workflow, args, engine, output_dir,
                    now, result >>

\* Lines 179 and 183: time.sleep(1), then the loop starts over.
Sleep(i) ==
    /\ pc[i] = "sleep"
    /\ pc' = [ pc EXCEPT ![i] = "poll" ]
    /\ UNCHANGED << config, template, workflow, args, loc, reqs, engine,
                    output_dir, now, result >>

\* Line 187: history = get_history(prompt_id)[prompt_id], a second query.
\* The entry the engine filed for the job is one of Histories.
History(i) ==
    /\ pc[i] = "history"
    /\ reqs' = [ reqs EXCEPT ![i].history = Count(@) ]
    /\ \E answered \in BOOLEAN :
          IF ~answered THEN Raise(i, "URLError")
          ELSE IF ~GetHistory(loc[i].prompt_id).found
          THEN Raise(i, "KeyError")
          ELSE \E e \in 1..Len(Histories) :
                  /\ pc' = [ pc EXCEPT ![i] = "fetch" ]
                  /\ loc' = [ loc EXCEPT ![i].history = e ]
    /\ UNCHANGED << config, template, workflow, args, engine, output_dir,
                    now, result >>

\* The image descriptors of one node's output (line 191: none without an
\* 'images' key).
NodeImages(node_output) ==
    IF "images" \in DOMAIN node_output THEN node_output.images ELSE <<>>

\* The /view requests lines 192-194 issue for an outputs map.
ViewRequests(outputs) ==
    UNION { { <<n, k>> : k \in 1..Len(NodeImages(outputs[n])) } :
            n \in DOMAIN outputs }

\* Lines 188-195: fetch every image of every output node.  A request that
\* fails ends the loops with its error.
Fetch(i) ==
    /\ pc[i] = "fetch"
    /\ LET history == Histories[loc[i].history]
       IN IF "outputs" \notin DOMAIN history
          THEN Raise(i, "KeyError") /\ UNCHANGED reqs
          ELSE LET outputs == history.outputs
                   n_req   == Cardinality(ViewRequests(outputs))
               IN \E failed \in { f \in BOOLEAN : f => n_req > 0 } :
                     IF failed
                     THEN /\ Raise(i, "URLError")
                          /\ reqs' = [ reqs EXCEPT ![i].view = Count(@) ]
                     ELSE /\ reqs' = [ reqs EXCEPT ![i].view =
                                IF n_req < ReqCap THEN n_req ELSE ReqCap ]
                          /\ pc' = [ pc EXCEPT ![i] = "select" ]
                          /\ loc' = [ loc EXCEPT
                               ![i].history = 0,
                               ![i].output_images =
                                 [ n \in DOMAIN outputs |->
                                     [ k \in 1..Len(NodeImages(outputs[n])) |->
                                         GetImage(loc[i].prompt_id,
                                                  NodeImages(outputs[n])[k]) ] ] ]
    /\ UNCHANGED << config, template, workflow, args, engine, output_dir,
                    now, result >>

\* Line 198: output_images.get(save_image_node, []).
SelectSaveNode(output_images) ==
    IF config.save_image_node \in DOMAIN output_images
    THEN output_images[config.save_image_node] ELSE <<>>

\* A faulty selection: when the save node has no image, the images of some
\* other output node are taken.
SelectAnyNode(output_images) ==
    IF SelectSaveNode(output_images) # <<>>
    THEN SelectSaveNode(output_images)
    ELSE IF \E n \in DOMAIN output_images : output_images[n] # <<>>
    THEN output_images[CHOOSE n \in DOMAIN output_images :
                           output_images[n] # <<>>]
    ELSE <<>>

SelectImages(output_images) == SelectSaveNode(output_images)

NoImageText == << "Unspecified error. No image generated." >>

\* The directory with one file written (an existing file of that name is
\* overwritten).
WriteFile(dir, name, content) == (name :> content) @@ dir

\* Lines 211-212: without images the function returns normally.
ReturnNoImage(i) ==
    /\ loc' = [ loc EXCEPT ![i] = [ NoLocals EXCEPT !.markdown = NoImageText ] ]
    /\ pc' = [ pc EXCEPT ![i] = "returned" ]

\* A variant that raises when there is no image.
RaiseNoImage(i) == Raise(i, "NoOutputError")

NoImage(i) == ReturnNoImage(i)

\* Lines 198-212: pick the save node's images, decode and save the first,
\* and return (image_filename, markdown); without images return
\* (None, message).  Image.open and image.save may raise OSError.
Persist(i) ==
    /\ pc[i] = "select"
    /\ LET images == SelectImages(loc[i].output_images)
       IN IF images # <<>>
          THEN \E saved \in BOOLEAN :
                  IF saved
                  THEN LET image_filename == ImageFilename(now, args[i].title)
                       IN /\ output_dir' = WriteFile(output_dir, image_filename,
                                [ kind |-> "png", data |-> images[1] ])
                          /\ loc' = [ loc EXCEPT ![i] = [ NoLocals EXCEPT
                                !.image_filename = image_filename,
                                !.markdown =
                                    Markdown(args[i].title, image_filename) ] ]
                          /\ pc' = [ pc EXCEPT ![i] = "returned" ]
                  ELSE Raise(i, "OSError") /\ UNCHANGED output_dir
          ELSE NoImage(i) /\ UNCHANGED output_dir
    /\ UNCHANGED << config, template, workflow, args, reqs, engine, now,
                    result >>

(* ------------------------------------------------------------------ *)
(* handle_call_tool after the await: lines 259-271                     *)
(* ------------------------------------------------------------------ *)

\* A faulty handler: it returns an empty list of content blocks.
NoContent(text) == [ kind |-> "none", text |-> <<>> ]

TextContent(text) == [ kind |-> "text", text |-> text ]

ErrorText(exc) == << "Error generating image: ", exc >>

\* Lines 267-271: except Exception as e.
ExceptException(exc) == TextContent(ErrorText(exc))

\* A faulty handler: it catches KeyError only; any other error leaves it.
ExceptKeyErrorOnly(exc) ==
    IF exc = "KeyError" THEN TextContent(ErrorText(exc))
    ELSE [ kind |-> "raised", text |-> << exc >> ]

Except(exc) == ExceptException(exc)

\* The worker's result reaches the handler.  An exception goes to the except
\* clause.  With a filename the prompt sidecar is written (lines 260-264, in
\* the try block: a failing open or write goes to the except clause too).
\* Then the markdown is returned (line 266).
Respond(i) ==
    /\ pc[i] = "returned"
    /\ pc' = [ pc EXCEPT ![i] = "done" ]
    /\ loc' = [ loc EXCEPT ![i] = NoLocals ]
    /\ args' = [ args EXCEPT ![i] = NoArgs ]
    /\ IF loc[i].exc # ""
       THEN /\ result' = [ result EXCEPT ![i] = Except(loc[i].exc) ]
            /\ UNCHANGED output_dir
       ELSE IF loc[i].image_filename # <<>>
       THEN \E written \in BOOLEAN :
               IF written
               THEN /\ output_dir' = WriteFile(output_dir,
                          PromptFilename(loc[i].image_filename),
                          [ kind |-> "txt", data |-> args[i].prompt ])
                    /\ result' = [ result EXCEPT ![i] =
                                     TextContent(loc[i].markdown) ]
               ELSE /\ result' = [ result EXCEPT ![i] = Except("OSError") ]
                    /\ UNCHANGED output_dir
       ELSE /\ result' = [ result EXCEPT ![i] = TextContent(loc[i].markdown) ]
            /\ UNCHANGED output_dir
    /\ UNCHANGED << config, template, workflow, reqs, engine, now >>

(* ------------------------------------------------------------------ *)
(* The environment: the engine and the clock                           *)
(* ------------------------------------------------------------------ *)

\* The engine starts a queued job.
EngineRun(j) ==
    /\ engine[j] = "queued"
    /\ engine' = [ engine EXCEPT ![j] = "running" ]
    /\ UNCHANGED << config, template, workflow, pc, args, loc, reqs,
                    output_dir, now, result >>

\* The engine finishes a job and files its history entry.
EngineComplete(j) ==
    /\ engine[j] \in { "queued", "running" }
    /\ engine' = [ engine EXCEPT ![j] = "complete" ]
    /\ UNCHANGED << config, template, workflow, pc, args, loc, reqs,
                    output_dir, now, result >>

\* The engine's history loses the entry (cleared, or pushed out).
EngineForget(j) ==
    /\ engine[j] = "complete"
    /\ engine' = [ engine EXCEPT ![j] = "gone" ]
    /\ UNCHANGED << config, template, workflow, pc, args, loc, reqs,
                    output_dir, now, result >>

Tick ==
    /\ now < MaxTime
    /\ now' = now + 1
    /\ UNCHANGED << config, template, workflow, pc, args, loc, reqs, engine,
                    output_dir, result >>

Worker(i) ==
    \/ Resolve(i)
    \/ InjectStep(i)
    \/ Serialize(i)
    \/ Post(i)
    \/ Poll(i)
    \/ Sleep(i)
    \/ History(i)
    \/ Fetch(i)
    \/ Persist(i)

Handler(i) ==
    \/ CallTool(i)
    \/ CallUnknownTool(i)
    \/ Respond(i)

Engine(j) ==
    \/ EngineRun(j)
    \/ EngineComplete(j)
    \/ EngineForget(j)

Next ==
    \/ \E i \in Calls : Handler(i)
    \/ \E i \in Calls : Worker(i)
    \/ \E j \in Calls : Engine(j)
    \/ Tick

Spec == Init /\ [][Next]_vars

(* ------------------------------------------------------------------ *)
(* One call alone, with the scheduling the runtime guarantees: a       *)
(* started worker thread keeps running, and the handler resumes when   *)
(* its worker has ended.  Nothing is assumed of the client, of the     *)
(* engine or of the clock.                                             *)
(* ------------------------------------------------------------------ *)

NextOne ==
    \/ Handler(1)
    \/ Worker(1)
    \/ Engine(1)
    \/ Tick

FairSpec ==
    /\ Init
    /\ [][NextOne]_vars
    /\ WF_vars(Worker(1))
    /\ WF_vars(Respond(1))

(* ------------------------------------------------------------------ *)
(* The resolver alone: lines 124-131 applied to every alias            *)
(* ------------------------------------------------------------------ *)

AliasInputs ==
    DOMAIN aspect_ratio_aliases
        \cup { "", "bogus", "Square", "TALL", "16x9", "2:1", "portrait", "None" }

InitResolver ==
    /\ \E c \in 1..Len(ConfigFiles) :
          /\ config = LoadConfig(ConfigFiles[c])
          /\ template = WorkflowFiles[ConfigFiles[c].graph]
          /\ workflow = WorkflowFiles[ConfigFiles[c].graph]
    /\ pc = [ i \in Calls |-> IF i = 1 THEN "resolve" ELSE "idle" ]
    /\ \E r \in Requests, a \in AliasInputs :
          args = [ i \in Calls |->
                     IF i = 1 THEN [ prompt |-> r.prompt, title |-> r.title,
                                     aspect_ratio |-> a ]
                     ELSE NoArgs ]
    /\ loc = [ i \in Calls |-> NoLocals ]
    /\ reqs = [ i \in Calls |-> [ prompt |-> 0, history |-> 0, view |-> 0 ] ]
    /\ engine = [ j \in Calls |-> "none" ]
    /\ output_dir = << >>
    /\ now = 0
    /\ result = [ i \in Calls |-> NoResult ]

NextResolver == Resolve(1)

SpecResolver == InitResolver /\ [][NextResolver]_vars

(* ------------------------------------------------------------------ *)
(* The sanitizer alone: lines 198-210 applied to every short title     *)
(* ------------------------------------------------------------------ *)

\* Letters of both cases, a digit, the underscore, and characters the
\* pattern matches: the hyphen itself, a space, an ampersand.
TitleChars == { "a", "Z", "7", "_", "-", " ", "&" }

Titles == UNION { [ 1..n -> TitleChars ] : n \in 0..MaxTitleLen }

\* Call 1 has fetched one image of the save node of a finished job.
InitSanitizer ==
    /\ config = LoadConfig(ConfigFiles[1])
    /\ template = WorkflowFiles[ConfigFiles[1].graph]
    /\ workflow = WorkflowFiles[ConfigFiles[1].graph]
    /\ pc = [ i \in Calls |-> IF i = 1 THEN "select" ELSE "idle" ]
    /\ \E t \in Titles :
          args = [ i \in Calls |->
                     IF i = 1 THEN [ prompt |-> "a red fox", title |-> t,
                                     aspect_ratio |-> Unset ]
                     ELSE NoArgs ]
    /\ loc = [ i \in Calls |->
                 IF i = 1
                 THEN [ NoLocals EXCEPT
                          !.prompt_id = 1,
                          !.output_images =
                              [ n \in { ConfigFiles[1].save_image_node } |->
                                  << GetImage(1, "out_1.png") >> ] ]
                 ELSE NoLocals ]
    /\ reqs = [ i \in Calls |->
                  IF i = 1 THEN [ prompt |-> 1, history |-> 1, view |-> 1 ]
                  ELSE [ prompt |-> 0, history |-> 0, view |-> 0 ] ]
    /\ engine = [ j \in Calls |-> IF j = 1 THEN "complete" ELSE "none" ]
    /\ output_dir = << >>
    /\ now = 0
    /\ result = [ i \in Calls |-> NoResult ]

NextSanitizer == Persist(1)

SpecSanitizer == InitSanitizer /\ [][NextSanitizer]_vars

(* ------------------------------------------------------------------ *)
(* Properties                                                          *)
(* ------------------------------------------------------------------ *)

\* The graph call i has serialised for its POST /prompt.
Body(i) == loc[i].body[1]

\* Node n of graph g holds value v in field f, when it has that field.
HoldsIfPresent(g, n, f, v) == f \in DOMAIN g[n] => g[n][f] = v

\* C1: the graph a call posts carries, in every size node, seed node and
\* prompt node, the values this same call bound, whatever other calls are
\* in flight.
C1_PostedGraphIsOwn ==
    \A i \in Calls :
        pc[i] = "post" =>
            /\ \A k \in 1..Len(config.image_size_nodes) :
                  LET n == config.image_size_nodes[k]
                  IN /\ HoldsIfPresent(Body(i), n, "width", loc[i].width)
                     /\ HoldsIfPresent(Body(i), n, "height", loc[i].height)
            /\ \A k \in 1..Len(loc[i].seeds) :
                  LET w == loc[i].seeds[k]
                  IN Body(i)[w[1]][w[2]] = w[3]
            /\ \A k \in 1..Len(config.prompt_nodes) :
                  Body(i)[config.prompt_nodes[k]].text = args[i].prompt

\* C2: the shared template graph always equals the graph loaded at startup.
C2_TemplateNeverMutated == workflow = template

\* The canonical ratio the claim names for each alias, 1:1 for anything else.
CanonicalRatio(alias) ==
    CASE alias \in { "1:1", "square" }   -> "1:1"
      [] alias \in { "16:9", "widest" }  -> "16:9"
      [] alias \in { "9:16", "tallest" } -> "9:16"
      [] alias \in { "4:3", "wide" }     -> "4:3"
      [] alias \in { "3:4", "tall" }     -> "3:4"
      [] OTHER                           -> "1:1"

C4_SizeNodesAreResolved ==
    \A i \in Calls :
        pc[i] = "post" =>
            \A n \in DOMAIN Body(i) :
                IF \E k \in 1..Len(config.image_size_nodes) :
                      config.image_size_nodes[k] = n
                THEN /\ HoldsIfPresent(Body(i), n, "width", loc[i].width)
                     /\ HoldsIfPresent(Body(i), n, "height", loc[i].height)
                ELSE \A f \in { "width", "height" } :
                        f \in DOMAIN Body(i)[n] =>
                            /\ f \in DOMAIN template[n]
                            /\ Body(i)[n][f] = template[n][f]

\* The step of call i in which lines 198-212 find no image of the save node.
NoImageStep(i) ==
    /\ pc[i] = "select"
    /\ SelectSaveNode(loc[i].output_images) = <<>>
    /\ pc'[i] # "select"

\* The step in which the handler takes over a worker's normal return of
\* (None, message).
NoImageRespondStep(i) ==
    /\ pc[i] = "returned"
    /\ loc[i].exc = ""
    /\ loc[i].image_filename = <<>>
    /\ pc'[i] = "done"

NothingEscapes ==
    \A i \in Calls :
        /\ result[i].kind \in { "none", "text" }
        /\ pc[i] = "done" <=> result[i].kind = "text"
        /\ pc[i] = "idle" => ENABLED CallTool(i)

\* C6: every error a worker raises is turned by handle_call_tool into the
\* text result "Error generating image: <error>"; no call ever raises out of
\* handle_call_tool, and the server keeps taking calls.
C6_ErrorsBecomeText ==
    /\ []NothingEscapes
    /\ [][ \A i \in Calls :
             pc[i] = "returned" /\ loc[i].exc # "" /\ pc'[i] = "done" =>
                 result'[i] = [ kind |-> "text",
                                text |-> << "Error generating image: ",
                                            loc[i].exc >> ] ]_vars

\* C6 witness: both calls have ended with an error text, one for an engine
\* request that failed and one for an image that could not be written.
C6_Witness ==
    /\ pc[1] = "done"
    /\ pc[2] = "done"
    /\ result[1] = [ kind |-> "text",
                     text |-> << "Error generating image: ", "URLError" >> ]
    /\ result[2] = [ kind |-> "text",
                     text |-> << "Error generating image: ", "OSError" >> ]

\* C7: a call that has started polling eventually returns, even when the
\* engine never reports its job terminal.
C7_PollerIsBounded == (pc[1] = "poll") ~> (pc[1] = "done")

\* C8: a call posts to /prompt at most once, and exactly once before any
\* status or artifact request and before it returns a reference; when the
\* engine did not accept the post, the worker ends at once and issues no
\* status or artifact request.
C8_SubmitsOnce ==
    \A i \in Calls :
        /\ reqs[i].prompt <= 1
        /\ pc[i] \in { "poll", "sleep", "history", "fetch", "select" } =>
              reqs[i].prompt = 1 /\ engine[i] # "none"
        /\ reqs[i].history > 0 \/ reqs[i].view > 0 =>
              reqs[i].prompt = 1 /\ engine[i] # "none"
        /\ reqs[i].prompt = 1 /\ engine[i] = "none" =>
              /\ pc[i] \in { "returned", "done" }
              /\ reqs[i].history = 0 /\ reqs[i].view = 0
        /\ pc[i] = "done" /\ result[i].text # <<>> /\ result[i].text[1] = "![" =>
              reqs[i].prompt = 1

\* C8 witness: a call whose post failed has ended with one post and no other
\* request.
C8_Witness ==
    \E i \in Calls :
        /\ pc[i] = "done"
        /\ reqs[i] = [ prompt |-> 1, history |-> 0, view |-> 0 ]
        /\ engine[i] = "none"
        /\ result[i].text = << "Error generating image: ", "URLError" >>

\* C9: once the image is saved and its filename returned, the handler
\* returns the rendered reference, whether or not the sidecar was written.
C9_SidecarFailureIsIgnored ==
    [][ \A i \in Calls :
          pc[i] = "returned" /\ loc[i].image_filename # <<>> /\ pc'[i] = "done"
            => result'[i] = [ kind |-> "text", text |-> loc[i].markdown ] ]_vars

\* C10: two calls that have both saved an image have saved it under
\* different filenames.
C10_FilenamesAreUnique ==
    \A i, j \in Calls :
        /\ i # j
        /\ pc[i] = "returned" /\ loc[i].image_filename # <<>>
        /\ pc[j] = "returned" /\ loc[j].image_filename # <<>>
        => loc[i].image_filename # loc[j].image_filename

\* The node identifiers the three role lists of the config name.
RoleIds ==
    UNION { { RoleNodes(Stages[s])[k] : k \in 1..Len(RoleNodes(Stages[s])) } :
            s \in 1..Len(Stages) }

\* C11: a server that has taken a call holds a config whose role lists name
\* only nodes of the loaded graph (a config naming an absent node was
\* rejected at startup), so no call meets a missing node while it injects.
C11_RoleNodesCheckedAtStartup ==
    /\ (\E i \in Calls : pc[i] # "idle") => RoleIds \subseteq DOMAIN template
    /\ \A i \in Calls :
          pc[i] \in { "size", "seed", "prompt" } =>
              RoleNodes(pc[i])[loc[i].k] \in DOMAIN workflow

\* The positions of a call whose next step runs on the event loop, in the
\* coroutine handle_call_tool; every other step runs on the worker thread.
OnEventLoop(i) == pc[i] \in { "idle", "returned" }

\* C12: no step the coordinator takes for a call performs blocking I/O: it
\* writes no file, every file write is a worker's step.
C12_CoordinatorNeverBlocks ==
    [][ \A i \in Calls :
          OnEventLoop(i) /\ pc'[i] # pc[i] => output_dir' = output_dir ]_vars

\* The sequence part occurs in the sequence whole, as consecutive elements.
Contains(part, whole) ==
    \E p \in 1..(Len(whole) + 1) :
        /\ p + Len(part) - 1 <= Len(whole)
        /\ SubSeq(whole, p, p + Len(part) - 1) = part

\* C13: when the save node's list of the history read is not empty and the
\* image is written, the worker returns a reference that contains the title
\* as supplied and the base URL followed by "/" and the name of the file
\* just written; the handler's result, unless it is an error text, is that
\* reference.
C13_ReferenceNamesTitleAndFile ==
    [][ \A i \in Calls :
          /\ ( /\ pc[i] = "select"
               /\ SelectSaveNode(loc[i].output_images) # <<>>
               /\ pc'[i] = "returned"
               /\ loc'[i].exc = "" ) =>
                LET fn  == loc'[i].image_filename
                    ref == loc'[i].markdown
                IN /\ fn # <<>>
                   /\ fn \in DOMAIN output_dir'
                   /\ output_dir'[fn].kind = "png"
                   /\ Contains(args[i].title, ref)
                   /\ Contains(<< image_app_base_url, "/" >> \o fn, ref)
          /\ ( /\ pc[i] = "returned"
               /\ loc[i].image_filename # <<>>
               /\ pc'[i] = "done"
               /\ result'[i].text[1] # "Error generating image: " ) =>
                result'[i].text = loc[i].markdown ]_vars

\* C13 witness: a call titled with a special character has returned the
\* reference with that title and the name of a file that exists.
C13_Witness ==
    \E i \in Calls :
        /\ pc[i] = "done"
        /\ \E fn \in DOMAIN output_dir :
              /\ output_dir[fn].kind = "png"
              /\ result[i].text =
                    << "![", "a", "&", "b", "](", image_app_base_url, "/" >>
                        \o fn \o << ")" >>

\* The bytes of the first image a history entry lists for the save node, for
\* every job and every entry that lists one.
FirstSaveNodeArtifacts ==
    { GetImage(j, NodeImages(Histories[e].outputs[config.save_image_node])[1]) :
        << j, e >> \in
          { x \in Calls \X (1..Len(Histories)) :
              /\ "outputs" \in DOMAIN Histories[x[2]]
              /\ config.save_image_node \in DOMAIN Histories[x[2]].outputs
              /\ NodeImages(Histories[x[2]].outputs[config.save_image_node])
                    # <<>> } }

\* C14: every image file holds the first artifact of the save node of some
\* job; the step that selects writes exactly the first fetched image of the
\* save node, and when the save node has none it writes no file and returns
\* no filename but the no-image message, whatever other nodes produced.
C14_OnlyFirstImageOfSaveNode ==
    /\ [](\A name \in DOMAIN output_dir :
            output_dir[name].kind = "png" =>
                output_dir[name].data \in FirstSaveNodeArtifacts)
    /\ [][ \A i \in Calls :
             pc[i] = "select" /\ pc'[i] # "select" =>
                IF SelectSaveNode(loc[i].output_images) = <<>>
                THEN /\ output_dir' = output_dir
                     /\ loc'[i].image_filename = <<>>
                     /\ loc'[i].markdown = NoImageText
                ELSE loc'[i].exc = "" =>
                        output_dir'[loc'[i].image_filename].data =
                            loc[i].output_images[config.save_image_node][1]
         ]_vars

\* C14 witness: one call has saved the first of the two images of its save
\* node, and another, whose job had images of other nodes only (they were
\* fetched), has returned the no-image message.
C14_Witness ==
    \E i, j \in Calls :
        /\ i # j
        /\ pc[i] = "returned"
        /\ loc[i].image_filename \in DOMAIN output_dir
        /\ output_dir[loc[i].image_filename].data = GetImage(i, "out_1.png")
        /\ pc[j] = "returned"
        /\ loc[j].markdown = NoImageText
        /\ reqs[j].view > 0

\* C15: a status query whose answer lacks the job id or says is_processing
\* sends the poller to sleep, and the sleep is followed by the next status
\* query and by nothing else; the poller goes on to retrieval only from a
\* query whose answer holds the job id and is not processing, and otherwise
\* leaves the loop only by the error of a failed request.
C15_PollerSleepsWhilePending ==
    [][ \A i \in Calls :
          /\ pc[i] = "poll" /\ pc'[i] # "poll" =>
                LET h == GetHistory(loc[i].prompt_id)
                IN /\ pc'[i] \in { "sleep", "history", "returned" }
                   /\ pc'[i] = "history" => h.found /\ ~h.is_processing
                   /\ pc'[i] = "sleep" => ~h.found \/ h.is_processing
                   /\ pc'[i] = "returned" => loc'[i].exc = "URLError"
                   /\ engine' = engine
          /\ pc[i] = "sleep" /\ pc'[i] # "sleep" =>
                /\ pc'[i] = "poll"
                /\ reqs' = reqs
                /\ loc' = loc ]_vars

\* C15 witness: one poller sleeps after an answer without its job id, the
\* other after an answer that said is_processing.
C15_Witness ==
    /\ pc[1] = "sleep" /\ engine[1] = "queued" /\ reqs[1].history > 0
    /\ pc[2] = "sleep" /\ engine[2] = "running" /\ reqs[2].history > 0

\* C16: a call that has observed its job terminal goes on to fetch the
\* artifacts of that payload; it does not fail on the job id, whatever the
\* engine does with the history entry afterwards.
C16_TerminalPayloadIsKept ==
    [][ \A i \in Calls :
          pc[i] = "history" /\ pc'[i] = "returned" =>
              loc'[i].exc # "KeyError" ]_vars

\* The input fields of the loaded graph that the three loops assign: the
\* fields of each role's nodes that the graph has.
BoundFields ==
    UNION { { << RoleNodes(st)[k], f >> :
                k \in { x \in 1..Len(RoleNodes(st)) :
                          RoleNodes(st)[x] \in DOMAIN template },
                f \in { y \in { "width", "height", "seed", "noise_seed",
                                "text" } :
                          \E z \in 1..Len(RoleFields(st)) :
                              RoleFields(st)[z] = y } } :
            st \in { "size", "seed", "prompt" } }

\* C17: the stages of one call happen in the order inject, submit, poll,
\* retrieve, persist, respond.  The post is made with every bound field
\* written; a status request follows the accepted post; an artifact request
\* follows a status request and a terminal job; an image file holds fetched
\* bytes and is written before its name is returned; and a reference is
\* returned only with its image file written.
C17_StagesInOrder ==
    /\ [](\A i \in Calls :
            /\ reqs[i].prompt > 0 =>
                  pc[i] \notin { "idle", "resolve", "size", "seed", "prompt",
                                 "queue" }
            /\ pc[i] = "post" =>
                  \A b \in BoundFields :
                      b[2] \in DOMAIN template[b[1]] =>
                          /\ b[2] \in DOMAIN Body(i)[b[1]]
                          /\ Body(i)[b[1]][b[2]] # template[b[1]][b[2]]
            /\ reqs[i].history > 0 => reqs[i].prompt = 1 /\ engine[i] # "none"
            /\ reqs[i].view > 0 =>
                  /\ reqs[i].history > 0
                  /\ engine[i] \in { "complete", "gone" }
            /\ loc[i].image_filename # <<>> =>
                  /\ reqs[i].view > 0
                  /\ loc[i].image_filename \in DOMAIN output_dir
            /\ \A name \in DOMAIN output_dir :
                  ( /\ output_dir[name].kind = "png"
                    /\ \E f \in { "out_1.png", "out_2.png", "preview.png" } :
                          output_dir[name].data = GetImage(i, f) )
                  => reqs[i].view > 0 /\ pc[i] \in { "returned", "done" })
    /\ [][ \A i \in Calls :
             pc[i] # "done" /\ pc'[i] = "done" /\ result'[i].text[1] = "![" =>
                /\ loc[i].image_filename \in DOMAIN output_dir
                /\ output_dir[loc[i].image_filename].kind = "png"
                /\ reqs[i].prompt = 1
                /\ reqs[i].history > 0
                /\ reqs[i].view > 0 ]_vars

\* C17 witness: a call has gone through every stage: its job is terminal,
\* its requests are made, an image file is written and the reference to it
\* is returned.
C17_Witness ==
    /\ pc[1] = "done"
    /\ reqs[1].prompt = 1 /\ reqs[1].history > 0 /\ reqs[1].view > 0
    /\ engine[1] = "complete"
    /\ result[1].text[1] = "!["
    /\ \E name \in DOMAIN output_dir :
          output_dir[name] = [ kind |-> "png", data |-> GetImage(1, "out_1.png") ]

\* A seed value is an integer s with 0 <= s < 10^10: two base-100000 limbs.
SeedInRange(v) ==
    /\ Len(v) = 2
    /\ \A k \in 1..2 : v[k] \in 0..99999

\* The values make_random_seed can return.
SeedDraws == { make_random_seed(u) : u \in UuidFloats }

\* C18: every value written into a seed or noise_seed input, and so every
\* such input of the shared graph and of a posted graph, is an integer s with
\* 0 <= s < 10^10; and each write is a draw of its own: whatever this call
\* wrote before, the statement that writes a seed field can write every
\* value make_random_seed can return.
C18_SeedsInRangeAndIndependent ==
    /\ \A n \in DOMAIN workflow :
          \A f \in { "seed", "noise_seed" } :
              f \in DOMAIN workflow[n] => SeedInRange(workflow[n][f])
    /\ \A i \in Calls :
          /\ \A k \in 1..Len(loc[i].seeds) :
                /\ loc[i].seeds[k][2] \in { "seed", "noise_seed" }
                /\ SeedInRange(loc[i].seeds[k][3])
          /\ pc[i] = "post" =>
                \A n \in DOMAIN Body(i) :
                    \A f \in { "seed", "noise_seed" } :
                        f \in DOMAIN Body(i)[n] => SeedInRange(Body(i)[n][f])
          /\ ( /\ pc[i] = "seed"
               /\ RoleNodes("seed")[loc[i].k] \in DOMAIN workflow
               /\ Writes("seed", RoleNodes("seed")[loc[i].k],
                         RoleFields("seed")[loc[i].f]) ) =>
                \A v \in SeedDraws :
                    ENABLED ( /\ InjectStep(i)
                              /\ workflow'[RoleNodes("seed")[loc[i].k]]
                                          [RoleFields("seed")[loc[i].f]] = v
                              /\ loc'[i].seeds = Append(loc[i].seeds,
                                    << RoleNodes("seed")[loc[i].k],
                                       RoleFields("seed")[loc[i].f], v >>) )

\* C18 witness: a call is about to post a graph into whose two seed inputs it
\* wrote two different values.
C18_Witness ==
    \E i \in Calls :
        /\ pc[i] = "post"
        /\ Len(loc[i].seeds) = 2
        /\ loc[i].seeds[1][2] = "noise_seed"
        /\ loc[i].seeds[2][2] = "seed"
        /\ loc[i].seeds[1][3] # loc[i].seeds[2][3]

\* The sanitized title inside a filename: what stands between the timestamp
\* with its underscore and the underscore of the workflow name.
TitleInFilename(image_filename) ==
    SubSeq(image_filename, 3, Len(image_filename) - 3)

\* C19: the sanitized title of a saved image has the length of the title,
\* holds the title's character wherever that is one of [A-Za-z0-9_] and "-"
\* everywhere else; a title that is already sanitized is kept as it is, and
\* sanitizing the sanitized title changes nothing.
C19_SanitizeIsOneForOne ==
    \A i \in Calls :
        pc[i] = "returned" /\ loc[i].image_filename # <<>> =>
            LET title       == args[i].title
                image_title == TitleInFilename(loc[i].image_filename)
            IN /\ Len(image_title) = Len(title)
               /\ \A k \in 1..Len(title) :
                     image_title[k] =
                         IF title[k] \in WordChars THEN title[k] ELSE "-"
               /\ (\A k \in 1..Len(title) : title[k] \in WordChars \cup {"-"})
                     => image_title = title
               /\ SanitizeTitle(image_title) = image_title

\* C19 witness: the title " Z&" was saved as "-Z-".
C19_Witness ==
    /\ pc[1] = "returned"
    /\ args[1].title = << " ", "Z", "&" >>
    /\ loc[1].image_filename =
          << "ts0", "_", "-", "Z", "-", "_", comfyui_workflow_name, ".png" >>

\* The job whose artifact the bytes of an image file are.
Producer(data) ==
    CHOOSE j \in Calls :
        \E f \in { "out_1.png", "out_2.png", "preview.png" } :
            data = GetImage(j, f)

\* C20: when all calls have ended, every image file whose producing call
\* ended with the reference to it has beside it the .txt file of the same
\* stem, and that file holds the prompt of the producing call.
C20_SidecarHoldsPromptOfImage ==
    (\A i \in Calls : pc[i] = "done") =>
        \A name \in DOMAIN output_dir :
            output_dir[name].kind = "png" =>
                \A r \in Requests :
                    result[Producer(output_dir[name].data)].text
                        = Markdown(r.title, name)
                    => /\ PromptFilename(name) \in DOMAIN output_dir
                       /\ output_dir[PromptFilename(name)] =
                             [ kind |-> "txt", data |-> r.prompt ]

\* Input field f of node n is one the config designates for binding: width
\* or height of a size node, seed or noise_seed of a seed node, text of a
\* prompt node.
RoleDesignated(n, f) ==
    \E s \in 1..Len(Stages) :
        /\ \E k \in 1..Len(RoleNodes(Stages[s])) : RoleNodes(Stages[s])[k] = n
        /\ \E k \in 1..Len(RoleFields(Stages[s])) : RoleFields(Stages[s])[k] = f

\* C21: the graph a call posts has the node ids of the loaded graph, every
\* node has the input names it has in the loaded graph, and an input whose
\* value differs from the loaded one is a role-designated field.
C21_OnlyRoleFieldsChange ==
    \A i \in Calls :
        pc[i] = "post" =>
            /\ DOMAIN Body(i) = DOMAIN template
            /\ \A n \in DOMAIN template :
                  /\ DOMAIN Body(i)[n] = DOMAIN template[n]
                  /\ \A f \in DOMAIN template[n] :
                        Body(i)[n][f] # template[n][f] => RoleDesignated(n, f)

\* Whenever the poller of call 1 waits, the engine's history comes to hold
\* the finished job (and holds it until the poller has asked).
EngineReportsTerminal ==
    [](pc[1] \in { "poll", "sleep" } => <>(engine[1] = "complete"))

\* Call 1 has ended with one text content block: a rendered reference or a
\* message that tells of an error.
OneTextBlock ==
    /\ pc[1] = "done"
    /\ result[1].kind = "text"
    /\ result[1].text # <<>>
    /\ result[1].text[1] \in { "![", "Error generating image: ",
                               "Unspecified error. No image generated.",
                               "Unknown tool: " }

\* C22: a call that has ended has returned one text content block, a
\* reference or an error message, and what it returned is never replaced or
\* added to; and when the engine eventually reports the job terminal, every
\* image_generate call that was taken eventually ends so.
C22_EventuallyOneTextBlock ==
    /\ [](pc[1] = "done" => OneTextBlock)
    /\ [][ result[1].kind # "none" => result'[1] = result[1] ]_vars
    /\ EngineReportsTerminal => ((pc[1] = "resolve") ~> OneTextBlock)

\* C22 witness: the engine reported the job of call 1 terminal, every
\* request of the call was made, and the call has ended with a reference.
C22_Witness ==
    /\ pc[1] = "done"
    /\ engine[1] = "complete"
    /\ reqs[1].prompt = 1 /\ reqs[1].history > 0 /\ reqs[1].view > 0
    /\ result[1].kind = "text"
    /\ result[1].text[1] = "!["
    /\ Len(result[1].text) > 1

====
